---- MODULE Spec2Model ----
(***************************************************************************)
(* Model of the price-estimation notebooks of Multi-Agent-DealSeeker:      *)
(*   - 04_RAG Test.ipynb: get_price, gpt_4o_mini_rag, deepseek_api_rag     *)
(*   - 01_Data Curation for Large Language Models.ipynb: the three        *)
(*     price loops over the raw dataset                                    *)
(*   - 06_Scanner Agent [ Scrapping RSS Feeds].ipynb: slots and the        *)
(*     balanced sample                                                     *)
(* Strings are sequences of one-character strings so that the parsing and  *)
(* the regular-expression search are computed, not assumed.                *)
(***************************************************************************)
EXTENDS Integers, Sequences, FiniteSets, TLC

\* ------------------------------------------------------------------ bounds
\* longest upstream reply the language model produces in the model
MaxReplyLen == 2
\* longest input string handed to get_price in the pure-function check
MaxPriceLen == 4

\* --------------------------------------------------------------- characters
Digits == {"0", "1", "2", "3", "4", "5", "6", "7", "8", "9"}
Signs == {"-", "+"}
DigitVal(c) ==
  CASE c = "0" -> 0 [] c = "1" -> 1 [] c = "2" -> 2 [] c = "3" -> 3
    [] c = "4" -> 4 [] c = "5" -> 5 [] c = "6" -> 6 [] c = "7" -> 7
    [] c = "8" -> 8 [] c = "9" -> 9

\* characters a reply is built from: the two stripped characters, a sign,
\* the decimal point, two digits and a letter
ReplyAlphabet == {"$", ",", "-", ".", "1", "2", "a"}

StringsUpTo(alphabet, n) == UNION {[1..k -> alphabet] : k \in 0..n}

IsDigit(c) == c \in Digits
HasDigit(s) == \E k \in 1..Len(s) : IsDigit(s[k])

\* ------------------------------------------------------------------ numbers
\* A Python float read from a short decimal literal is kept exactly as
\* num/den with den a power of ten and no trailing zero in the fraction.
Pow10(n) == IF n = 0 THEN 1 ELSE IF n = 1 THEN 10 ELSE IF n = 2 THEN 100
            ELSE IF n = 3 THEN 1000 ELSE IF n = 4 THEN 10000
            ELSE IF n = 5 THEN 100000 ELSE 1000000

RECURSIVE DigitsValue(_)
DigitsValue(ds) ==
  IF ds = <<>> THEN 0
  ELSE 10 * DigitsValue(SubSeq(ds, 1, Len(ds) - 1)) + DigitVal(ds[Len(ds)])

RECURSIVE Normalize(_)
Normalize(v) ==
  IF v.den > 1 /\ v.num % 10 = 0
  THEN Normalize([num |-> v.num \div 10, den |-> v.den \div 10])
  ELSE v

Number(n) == [num |-> n, den |-> 1]
NaN == [nan |-> TRUE]
ValueError == [raised |-> "ValueError"]
IsNumber(v) == "num" \in DOMAIN v
Leq(a, b) == IsNumber(a) /\ IsNumber(b) /\ a.num * b.den <= b.num * a.den

\* float(s) for the literals  [sign] digits [ "." digits ]  and  [sign] "."
\* digits, for "nan", and ValueError for everything else over the model's
\* characters ("" and "None" included).
float(s) ==
  LET signed == Len(s) >= 1 /\ s[1] \in Signs
      body == IF signed THEN SubSeq(s, 2, Len(s)) ELSE s
      dots == {k \in 1..Len(body) : body[k] = "."}
      dot == IF dots = {} THEN Len(body) + 1 ELSE CHOOSE k \in dots : TRUE
      ip == SubSeq(body, 1, dot - 1)
      fp == SubSeq(body, dot + 1, Len(body))
      wellFormed == /\ Cardinality(dots) <= 1
                    /\ \A k \in 1..Len(body) : k \in dots \/ IsDigit(body[k])
                    /\ Len(ip) + Len(fp) >= 1
      magnitude == DigitsValue(ip) * Pow10(Len(fp)) + DigitsValue(fp)
  IN IF body = <<"n", "a", "n">> THEN NaN
     ELSE IF ~wellFormed THEN ValueError
     ELSE Normalize([num |-> IF signed /\ s[1] = "-" THEN 0 - magnitude ELSE magnitude,
                     den |-> Pow10(Len(fp))])

\* ---------------------------------------------------------------- get_price
\* s.replace('$','').replace(',','')
StripPrice(s) == SelectSeq(s, LAMBDA c : c \notin {"$", ","})

\* end (exclusive) of the longest run of digits starting at p
DigitsEnd(t, p) ==
  CHOOSE q \in p..(Len(t) + 1) :
    /\ \A k \in p..(q - 1) : IsDigit(t[k])
    /\ (q = Len(t) + 1 \/ ~IsDigit(t[q]))

\* \d*\.\d+ at p: the digit run is greedy and backtracks to the longest
\* prefix followed by "." and a digit; 0 when there is no match
MatchDecimal(t, p) ==
  LET stops == {k \in p..DigitsEnd(t, p) :
                  k + 1 <= Len(t) /\ t[k] = "." /\ IsDigit(t[k + 1])}
  IN IF stops = {} THEN 0
     ELSE LET k == CHOOSE x \in stops : \A y \in stops : y <= x
          IN DigitsEnd(t, k + 1)

\* [-+]?\d*\.\d+ at p: the optional sign is tried first, then skipped
MatchAlt1(t, p) ==
  IF p <= Len(t) /\ t[p] \in Signs /\ MatchDecimal(t, p + 1) # 0
  THEN MatchDecimal(t, p + 1)
  ELSE MatchDecimal(t, p)

\* \d+ at p
MatchAlt2(t, p) == IF p <= Len(t) /\ IsDigit(t[p]) THEN DigitsEnd(t, p) ELSE 0

\* the alternation at p: first alternative first
MatchAt(t, p) == IF MatchAlt1(t, p) # 0 THEN MatchAlt1(t, p) ELSE MatchAlt2(t, p)

NoMatch == [start |-> 0, end |-> 0]

\* re_search taking the rightmost match, as findall(...)[-1] would
re_search_last(t) ==
  LET starts == {p \in 1..Len(t) : MatchAt(t, p) # 0}
  IN IF starts = {} THEN NoMatch
     ELSE LET p == CHOOSE x \in starts : \A y \in starts : y <= x
          IN [start |-> p, end |-> MatchAt(t, p)]

\* re.search(r"[-+]?\d*\.\d+|\d+", t): the match at the leftmost position
\* that has one; end is exclusive
re_search(t) ==
  LET starts == {p \in 1..Len(t) : MatchAt(t, p) # 0}
  IN IF starts = {} THEN NoMatch
     ELSE LET p == CHOOSE x \in starts : \A y \in starts : x <= y
          IN [start |-> p, end |-> MatchAt(t, p)]

\* get_price without the "if match else 0" fallback
get_price_no_fallback(s) ==
  LET t == StripPrice(s)
      match == re_search(t)
  IN IF match # NoMatch
     THEN CHOOSE v \in {float(group) : group \in {SubSeq(t, match.start, match.end - 1)}} : TRUE
     ELSE float(t)

\* float(match.group()) if match else 0; group is the matched text
get_price(s) ==
  LET t == StripPrice(s)
      match == re_search(t)
  IN IF match # NoMatch
     THEN CHOOSE v \in {float(group) : group \in {SubSeq(t, match.start, match.end - 1)}} : TRUE
     ELSE Number(0)

\* ------------------------------------------------------- retrieval (04_RAG)
\* test.pkl: the items handed to the estimators.  text stands for the
\* item's details, vec for the sentence embedding of its description.
TestItems == {[name |-> "mic", text |-> "Quadcast HyperX condenser mic", vec |-> 2, price |-> 139],
              [name |-> "fan", text |-> "Ceiling fan with remote", vec |-> 7, price |-> 45]}

\* n_results of collection.query
n_results == 5

\* the 'products' collection as the estimators find it
Products ==
  << [id |-> "doc_0", document |-> "USB microphone", vec |-> 1, category |-> "Electronics", price |-> 120],
     [id |-> "doc_1", document |-> "Studio microphone", vec |-> 3, category |-> "Musical_Instruments", price |-> 150],
     [id |-> "doc_2", document |-> "Desk fan", vec |-> 6, category |-> "Appliances", price |-> 30],
     [id |-> "doc_3", document |-> "Tower fan", vec |-> 8, category |-> "Appliances", price |-> 60],
     [id |-> "doc_4", document |-> "Headset", vec |-> 4, category |-> "Electronics", price |-> 80],
     [id |-> "doc_5", document |-> "Light kit", vec |-> 9, category |-> "Tools_and_Home_Improvement", price |-> 25] >>

Distance(a, b) == IF a >= b THEN a - b ELSE b - a

\* collection.query(query_embeddings=q, n_results=n): the indices of the n
\* nearest records, nearest first, earlier insertion first on a tie
RECURSIVE Nearest(_, _, _, _)
Nearest(coll, q, n, taken) ==
  LET rest == (1..Len(coll)) \ taken
  IN IF n = 0 \/ rest = {} THEN <<>>
     ELSE LET best == CHOOSE k \in rest : \A j \in rest :
                        \/ Distance(coll[k].vec, q) < Distance(coll[j].vec, q)
                        \/ (Distance(coll[k].vec, q) = Distance(coll[j].vec, q) /\ k <= j)
          IN <<best>> \o Nearest(coll, q, n - 1, taken \cup {best})

find_similars(coll, it) ==
  LET hits == Nearest(coll, it.vec, n_results, {})
  IN [documents |-> [k \in 1..Len(hits) |-> coll[hits[k]].document],
      prices |-> [k \in 1..Len(hits) |-> coll[hits[k]].price]]

\* f"{price:.2f}" of a whole-dollar price
Format2f(p) == <<p, ".", 0, 0>>

\* a context that pairs the documents with the prices in reverse order
make_context_reversed_prices(similars, ps) ==
  <<"To provide some context, here are some other items that might be similar to the item you need to estimate.\n\n">>
  \o [k \in 1..(IF Len(similars) <= Len(ps) THEN Len(similars) ELSE Len(ps)) |->
        <<"Potentially related product:\n", similars[k], "\nPrice is $",
          Format2f(ps[Len(ps) + 1 - k]), "\n\n">>]

\* make_context: the heading, then one block per (similar, price) pair
make_context(similars, ps) ==
  <<"To provide some context, here are some other items that might be similar to the item you need to estimate.\n\n">>
  \o [k \in 1..(IF Len(similars) <= Len(ps) THEN Len(similars) ELSE Len(ps)) |->
        <<"Potentially related product:\n", similars[k], "\nPrice is $", Format2f(ps[k]), "\n\n">>]

\* Item.test_prompt(): the prompt up to and including the price prefix
test_prompt(it) ==
  <<"How much does this cost", " to the nearest dollar", "?\n\n", it.text, "\n\nPrice is $">>

\* messages without the assistant's priming text
messages_for_unprimed(it, similars, ps) ==
  LET system_message == "You estimate prices of items. Reply only with the price, no explanation"
      question == SelectSeq(test_prompt(it),
                            LAMBDA part : part \notin {" to the nearest dollar", "\n\nPrice is $"})
      user_prompt == <<make_context(similars, ps), "And now the question for you:\n\n", question>>
  IN << [role |-> "system", content |-> system_message],
        [role |-> "user", content |-> user_prompt] >>

\* messages whose question is the test prompt as it comes
messages_for_keeping_suffix(it, similars, ps) ==
  LET system_message == "You estimate prices of items. Reply only with the price, no explanation"
      question == test_prompt(it)
      user_prompt == <<make_context(similars, ps), "And now the question for you:\n\n", question>>
  IN << [role |-> "system", content |-> system_message],
        [role |-> "user", content |-> user_prompt],
        [role |-> "assistant", content |-> "Price is $"] >>

\* messages_for(item, similars, prices)
messages_for(it, similars, ps) ==
  LET system_message == "You estimate prices of items. Reply only with the price, no explanation"
      question == SelectSeq(test_prompt(it),
                            LAMBDA part : part \notin {" to the nearest dollar", "\n\nPrice is $"})
      user_prompt == <<make_context(similars, ps), "And now the question for you:\n\n", question>>
  IN << [role |-> "system", content |-> system_message],
        [role |-> "user", content |-> user_prompt],
        [role |-> "assistant", content |-> "Price is $"] >>

\* retries = 8 of deepseek_api_rag
InitialRetries == 8

Unbound == [bound |-> FALSE, text |-> <<>>]
Bound(s) == [bound |-> TRUE, text |-> s]
NoResult == [none |-> TRUE]

\* what the upstream model may answer
UpstreamReplies == StringsUpTo(ReplyAlphabet, MaxReplyLen)

VARIABLES
  collection,   \* the 'products' collection
  fn,           \* the estimator being run: "none", "gpt_4o_mini_rag", "deepseek_api_rag"
  pc,           \* "idle", "loop", "returned", "raised"
  item,         \* the item being estimated
  documents,    \* find_similars result bound in the estimator
  prices,
  queries,      \* collection.query calls made for this item
  retries,      \* deepseek_api_rag locals
  done,
  reply,
  sent,         \* requests issued to chat.completions.create for this item
  outcomes,     \* per request: "ok" or "fail"
  result,       \* value returned to the caller
  error         \* exception the caller observes: "none", "APIError", ...

ragVars == <<collection, fn, pc, item, documents, prices, queries, retries,
             done, reply, sent, outcomes, result, error>>

\* the locals of the estimators, without the collection they read
estimatorVars == <<fn, pc, item, documents, prices, queries, retries,
                   done, reply, sent, outcomes, result, error>>

NoItem == [name |-> "", text |-> "", vec |-> 0, price |-> 0]

RagIdle ==
  /\ collection = Products
  /\ fn = "none" /\ pc = "idle" /\ item = NoItem
  /\ documents = <<>> /\ prices = <<>> /\ queries = 0
  /\ retries = 0 /\ done = FALSE /\ reply = Unbound
  /\ sent = <<>> /\ outcomes = <<>>
  /\ result = NoResult /\ error = "none"

gpt_request(it, similars, ps) ==
  [model |-> "gpt-4o-mini", messages |-> messages_for(it, similars, ps),
   seed |-> 42, max_tokens |-> 5]

\* a request that changes from one attempt to the next
deepseek_request_per_attempt(it, similars, ps) ==
  [model |-> "deepseek-chat", messages |-> messages_for(it, similars, ps),
   seed |-> 42, max_tokens |-> retries]

deepseek_request(it, similars, ps) ==
  [model |-> "deepseek-chat", messages |-> messages_for(it, similars, ps),
   seed |-> 42, max_tokens |-> 8]

\* return get_price(reply) as the caller sees it
Return(r) ==
  IF ~r.bound THEN [pc |-> "raised", result |-> NoResult, error |-> "UnboundLocalError"]
  ELSE CHOOSE ret \in
         {IF price = ValueError
          THEN [pc |-> "raised", result |-> NoResult, error |-> "ValueError"]
          ELSE [pc |-> "returned", result |-> price, error |-> "none"] :
            price \in {get_price(r.text)}} : TRUE

\* gpt_4o_mini_rag with a handler that swallows the failure and tries once more
gpt_4o_mini_rag_retrying(it) ==
  /\ pc = "idle"
  /\ LET found == find_similars(collection, it)
         request == gpt_request(it, found.documents, found.prices)
     IN /\ fn' = "gpt_4o_mini_rag" /\ item' = it
        /\ documents' = found.documents /\ prices' = found.prices
        /\ queries' = queries + 1
        /\ \/ \E text \in UpstreamReplies :
                \E ret \in {Return(Bound(text))} :
                   /\ sent' = Append(sent, request)
                   /\ outcomes' = Append(outcomes, "ok")
                   /\ reply' = Bound(text)
                   /\ pc' = ret.pc /\ result' = ret.result /\ error' = ret.error
           \/ \E text \in UpstreamReplies :
                \E ret \in {Return(Bound(text))} :
                   /\ sent' = sent \o <<request, request>>
                   /\ outcomes' = outcomes \o <<"fail", "ok">>
                   /\ reply' = Bound(text)
                   /\ pc' = ret.pc /\ result' = ret.result /\ error' = ret.error
  /\ UNCHANGED <<collection, retries, done>>

\* gpt_4o_mini_rag(item): one retrieval, one upstream call, no handler
gpt_4o_mini_rag(it) ==
  /\ pc = "idle"
  /\ LET found == find_similars(collection, it)
     IN /\ fn' = "gpt_4o_mini_rag" /\ item' = it
        /\ documents' = found.documents /\ prices' = found.prices
        /\ queries' = queries + 1
        /\ sent' = Append(sent, gpt_request(it, found.documents, found.prices))
        /\ \/ \E text \in UpstreamReplies :
                \E ret \in {Return(Bound(text))} :
                   /\ outcomes' = Append(outcomes, "ok")
                   /\ reply' = Bound(text)
                   /\ pc' = ret.pc /\ result' = ret.result /\ error' = ret.error
           \/ /\ outcomes' = Append(outcomes, "fail")
              /\ reply' = Unbound
              /\ pc' = "raised" /\ result' = NoResult /\ error' = "APIError"
  /\ UNCHANGED <<collection, retries, done>>

\* a find_similars cell that also writes the item into the collection
find_similars_cell_adding(it) ==
  /\ pc = "idle"
  /\ LET found == find_similars(collection, it)
     IN /\ fn' = "find_similars" /\ item' = it
        /\ documents' = found.documents /\ prices' = found.prices
        /\ queries' = queries + 1
  /\ collection' = Append(collection,
                          [id |-> it.name, document |-> it.text, vec |-> it.vec,
                           category |-> "", price |-> it.price])
  /\ pc' = "returned"
  /\ UNCHANGED <<retries, done, reply, sent, outcomes, result, error>>

\* the cell  documents, prices = find_similars(test[1])
find_similars_cell(it) ==
  /\ pc = "idle"
  /\ LET found == find_similars(collection, it)
     IN /\ fn' = "find_similars" /\ item' = it
        /\ documents' = found.documents /\ prices' = found.prices
        /\ queries' = queries + 1
  /\ pc' = "returned"
  /\ UNCHANGED <<collection, retries, done, reply, sent, outcomes, result, error>>

\* deepseek_api_rag(item), up to the while loop
deepseek_api_rag(it) ==
  /\ pc = "idle"
  /\ LET found == find_similars(collection, it)
     IN /\ fn' = "deepseek_api_rag" /\ item' = it
        /\ documents' = found.documents /\ prices' = found.prices
        /\ queries' = queries + 1
  /\ retries' = InitialRetries /\ done' = FALSE
  /\ pc' = "loop"
  /\ UNCHANGED <<collection, reply, sent, outcomes, result, error>>

\* a loop that goes round once more when the counter is already 0
LoopCondition_inclusive(d, r) == ~d /\ r >= 0

\* a loop that only stops when the counter is used up
LoopCondition_until_exhausted(d, r) == r > 0

\* while not done and retries > 0
LoopCondition(d, r) == ~d /\ r > 0

\* one pass through the try/except of the loop body
deepseek_attempt ==
  /\ pc = "loop" /\ LoopCondition(done, retries)
  /\ sent' = Append(sent, deepseek_request(item, documents, prices))
  /\ \/ \E text \in UpstreamReplies :
          /\ outcomes' = Append(outcomes, "ok")
          /\ reply' = Bound(text) /\ done' = TRUE
          /\ UNCHANGED retries
     \/ /\ outcomes' = Append(outcomes, "fail")
        /\ retries' = retries - 1
        /\ UNCHANGED <<reply, done>>
  /\ UNCHANGED <<collection, fn, pc, item, documents, prices, queries, result, error>>

\* the loop is left: return get_price(reply)
deepseek_return ==
  /\ pc = "loop" /\ ~LoopCondition(done, retries)
  /\ \E ret \in {Return(reply)} :
       pc' = ret.pc /\ result' = ret.result /\ error' = ret.error
  /\ UNCHANGED <<collection, fn, item, documents, prices, queries, retries,
                 done, reply, sent, outcomes>>

\* the caller goes on to the next item with fresh locals
NextItem ==
  /\ pc \in {"returned", "raised"}
  /\ fn' = "none" /\ pc' = "idle" /\ item' = NoItem
  /\ documents' = <<>> /\ prices' = <<>> /\ queries' = 0
  /\ retries' = 0 /\ done' = FALSE /\ reply' = Unbound
  /\ sent' = <<>> /\ outcomes' = <<>>
  /\ result' = NoResult /\ error' = "none"
  /\ UNCHANGED collection

\* ------------------------------------------------ get_price as a function
VARIABLES
  priceInput,   \* the string handed to get_price
  priceOutput   \* what get_price gave back, NoResult before the call

priceVars == <<priceInput, priceOutput>>

PriceIdle == priceInput = <<>> /\ priceOutput = NoResult

PriceInputs == StringsUpTo(ReplyAlphabet, MaxPriceLen)

call_get_price ==
  /\ priceOutput = NoResult
  /\ priceOutput' = get_price(priceInput)
  /\ UNCHANGED priceInput

\* ------------------------------------------------- curation (01_Data ...)
\* longest raw dataset
MaxDataset == 2

\* datapoint["price"] values: "", "None", "nan", "0", "-5", "0.99", "1",
\* "12.5", "999", "999.01", "1000"
PriceStrings ==
  { <<>>, <<"N", "o", "n", "e">>, <<"n", "a", "n">>, <<"0">>, <<"-", "5">>,
    <<"0", ".", "9", "9">>, <<"1">>, <<"1", "2", ".", "5">>, <<"9", "9", "9">>,
    <<"9", "9", "9", ".", "0", "1">>, <<"1", "0", "0", "0">> }

\* a raw record: its price string, and whether Item finds enough text in it
Datapoints == [price : PriceStrings, enough : BOOLEAN]

\* Item(datapoint, price): the include flag is decided by Item itself
Item(k, dp, p) == [source |-> k, price |-> p, include |-> dp.enough]

\* a handler that catches nothing
Handles_nothing(exc) == FALSE

\* except ValueError:
Handles(exc) == exc = ValueError

\* if price > 0
Positive(p) == IsNumber(p) /\ p.num > 0

\* the range test without its lower end
InRange_no_lower(p) == Leq(p, Number(999))

\* if 1 <= price <= 999
InRange(p) == Leq(Number(1), p) /\ Leq(p, Number(999))

VARIABLES
  dataset,      \* the raw records
  cell,         \* "prices", "valid_prices", "items", "done", "raised"
  idx,          \* position of the running for loop in dataset
  price_count,  \* prices of the counting cell
  valid_prices,
  items,
  visited,      \* <<cell, index>> of every record a loop body has run for
  curError      \* exception that ended a cell, or "none"

curVars == <<dataset, cell, idx, price_count, valid_prices, items, visited, curError>>

CurIdle ==
  /\ dataset = <<>> /\ cell = "done" /\ idx = 1
  /\ price_count = 0 /\ valid_prices = <<>> /\ items = <<>>
  /\ visited = <<>> /\ curError = "none"

CurStart ==
  /\ dataset \in UNION {[1..n -> Datapoints] : n \in 0..MaxDataset}
  /\ cell = "prices" /\ idx = 1
  /\ price_count = 0 /\ valid_prices = <<>> /\ items = <<>>
  /\ visited = <<>> /\ curError = "none"

\* a try/except ValueError body that raised exc: pass, or the cell dies
Except(exc) ==
  IF Handles(exc)
  THEN /\ idx' = idx + 1 /\ UNCHANGED <<cell, curError>>
  ELSE /\ cell' = "raised" /\ curError' = exc.raised /\ UNCHANGED idx

\* one pass of "How many have prices?"
count_prices_step ==
  /\ cell = "prices" /\ idx <= Len(dataset)
  /\ visited' = Append(visited, <<cell, idx>>)
  /\ LET price == float(dataset[idx].price)
     IN IF price = ValueError
        THEN Except(price) /\ UNCHANGED price_count
        ELSE /\ price_count' = IF Positive(price) THEN price_count + 1 ELSE price_count
             /\ idx' = idx + 1 /\ UNCHANGED <<cell, curError>>
  /\ UNCHANGED <<dataset, valid_prices, items>>

\* one pass of "For those with prices, gather the price and the length"
valid_prices_step ==
  /\ cell = "valid_prices" /\ idx <= Len(dataset)
  /\ visited' = Append(visited, <<cell, idx>>)
  /\ LET price == float(dataset[idx].price)
     IN IF price = ValueError
        THEN Except(price) /\ UNCHANGED valid_prices
        ELSE /\ valid_prices' = IF InRange(price) THEN Append(valid_prices, price)
                                ELSE valid_prices
             /\ idx' = idx + 1 /\ UNCHANGED <<cell, curError>>
  /\ UNCHANGED <<dataset, price_count, items>>

\* one pass of "Create Item objects for products with valid prices"
items_step ==
  /\ cell = "items" /\ idx <= Len(dataset)
  /\ visited' = Append(visited, <<cell, idx>>)
  /\ LET price == float(dataset[idx].price)
     IN IF price = ValueError
        THEN Except(price) /\ UNCHANGED items
        ELSE /\ items' = IF InRange(price) /\ Item(idx, dataset[idx], price).include
                         THEN Append(items, Item(idx, dataset[idx], price))
                         ELSE items
             /\ idx' = idx + 1 /\ UNCHANGED <<cell, curError>>
  /\ UNCHANGED <<dataset, price_count, valid_prices>>

\* a for loop has run out of records: the next cell starts
next_cell ==
  /\ cell \in {"prices", "valid_prices", "items"} /\ idx > Len(dataset)
  /\ cell' = CASE cell = "prices" -> "valid_prices"
               [] cell = "valid_prices" -> "items"
               [] cell = "items" -> "done"
  /\ idx' = 1
  /\ UNCHANGED <<dataset, price_count, valid_prices, items, visited, curError>>

\* ------------------------------------------- balanced sample (06_Scanner)
\* The notebook's literals 999, 240 and 1200 are scaled down together; the
\* loop and its two comparisons are kept as written.
\* highest price slot: range(1, 1000) stops at 999
MaxPrice == 4
\* slots from here on are taken whole: i >= 240
Threshold == 3
\* size of a down-sampled slot: 1200
Cap == 2
\* most items the loaders deliver
MaxItems == Cap + 1

Categories == {"Automotive", "Electronics"}

\* an item of the loaders: price in half dollars (2 is $1.00), category
LoadedItems == [price2 : 2..(2 * MaxPrice), category : Categories]

\* round(item.price): Python rounds a half to the even neighbour
round(price2) ==
  LET floor == price2 \div 2
  IN IF price2 % 2 = 0 THEN floor
     ELSE IF floor % 2 = 0 THEN floor ELSE floor + 1

\* keys the defaultdict can be asked for
SlotKeys == 0..(MaxPrice + 1)

\* slots[round(item.price)].append(item) for every item, in list order;
\* an item is known by its position in the loaded list
make_slots(loaded) ==
  [key \in SlotKeys |->
     SelectSeq([k \in 1..Len(loaded) |->
                  [id |-> k, price2 |-> loaded[k].price2, category |-> loaded[k].category]],
               LAMBDA it : round(it.price2) = key)]

\* the threshold test with > for >=
AboveThreshold_strict(s) == s > Threshold

\* if i >= 240
AboveThreshold(s) == s >= Threshold

\* elif len(slot) <= 1200
WithinCap(slot) == Len(slot) <= Cap

\* weights that favour the dominant category instead
weights_favour_automotive(slot) ==
  [k \in 1..Len(slot) |-> IF slot[k].category = "Automotive" THEN 5 ELSE 1]

\* 1 if item.category == 'Automotive' else 5, before normalising
weights(slot) == [k \in 1..Len(slot) |-> IF slot[k].category = "Automotive" THEN 1 ELSE 5]

\* np.sum(weights)
RECURSIVE np_sum(_)
np_sum(w) == IF w = <<>> THEN 0 ELSE w[1] + np_sum(Tail(w))

\* weights / np.sum(weights): every weight over the slot's total, kept as
\* the exact quotient
normalize(w) ==
  CHOOSE q \in {[k \in 1..Len(w) |-> [num |-> w[k], den |-> total]] : total \in {np_sum(w)}} : TRUE

\* the draw with replace=True
random_choice_with_replacement(n, size, w) ==
  {sel \in [1..size -> 0..(n - 1)] : \A k \in 1..size : w[sel[k] + 1].num > 0}

\* np.random.choice(n, size=size, replace=False, p=w): every sequence of
\* size pairwise different indices of nonzero weight (numbered from 0) is a
\* possible draw
random_choice(n, size, w) ==
  {sel \in [1..size -> 0..(n - 1)] :
     /\ \A k \in 1..size : w[sel[k] + 1].num > 0
     /\ \A j, k \in 1..size : j # k => sel[j] # sel[k]}

VARIABLES
  loaded,       \* items delivered by the loaders
  slots,        \* price slot -> items
  i,            \* loop variable of the sampling loop
  sample,
  draws,        \* the np.random.choice calls made: slot, p and the indices drawn
  balPc         \* "loaded", "sampling", "done"

balVars == <<loaded, slots, i, sample, draws, balPc>>

BalIdle ==
  /\ loaded = <<>> /\ slots = [key \in SlotKeys |-> <<>>]
  /\ i = 1 /\ sample = <<>> /\ draws = <<>> /\ balPc = "done"

BalStart ==
  /\ loaded \in UNION {[1..n -> LoadedItems] : n \in 0..MaxItems}
  /\ slots = [key \in SlotKeys |-> <<>>]
  /\ i = 1 /\ sample = <<>> /\ draws = <<>> /\ balPc = "loaded"

\* the cell that fills slots, then sample = [] and the loop begins
build_slots ==
  /\ balPc = "loaded"
  /\ slots' = make_slots(loaded)
  /\ sample' = <<>> /\ i' = 1
  /\ balPc' = "sampling"
  /\ UNCHANGED <<loaded, draws>>

\* one pass of  for i in range(1, 1000)
sample_step ==
  /\ balPc = "sampling" /\ i <= MaxPrice
  /\ LET slot == slots[i]
     IN IF AboveThreshold(i) THEN sample' = sample \o slot /\ UNCHANGED draws
        ELSE IF WithinCap(slot) THEN sample' = sample \o slot /\ UNCHANGED draws
        ELSE \E p \in {normalize(weights(slot))} :
               \E selected_indices \in random_choice(Len(slot), Cap, p) :
                 /\ sample' = sample \o [k \in 1..Cap |-> slot[selected_indices[k] + 1]]
                 /\ draws' = Append(draws, [slot |-> i, p |-> p,
                                            selected_indices |-> selected_indices])
  /\ i' = i + 1
  /\ UNCHANGED <<loaded, slots, balPc>>

\* range(1, 1000) is exhausted
sample_done ==
  /\ balPc = "sampling" /\ i > MaxPrice
  /\ balPc' = "done"
  /\ UNCHANGED <<loaded, slots, i, sample, draws>>

\* ---------------------------------------------------- train and test split
\* length of train: 400_000
TrainSize == 2
\* length of test: 2_000
TestSize == 1
\* longest sample that is split
MaxSample == TrainSize + TestSize + 1

\* random.seed(42)
Seed == 42

\* seq[a:b] of Python: positions a..b-1 counted from 0, cut at the end
Slice(seq, a, b) ==
  LET last == IF b < Len(seq) THEN b ELSE Len(seq)
  IN IF a + 1 > last THEN <<>> ELSE SubSeq(seq, a + 1, last)

\* random.shuffle(sample): the seed fixes one rearrangement of the list;
\* which one is not derivable from the notebook, so every rearrangement is
\* a possible outcome
random_shuffle(seq) ==
  {[k \in 1..Len(seq) |-> seq[perm[k]]] : perm \in Permutations(1..Len(seq))}

\* a split whose test slice starts one item early
train_test_split_overlapping(seq) ==
  [train |-> Slice(seq, 0, TrainSize),
   test |-> Slice(seq, TrainSize - 1, TrainSize + TestSize)]

\* train, test = sample[:400_000], sample[400_000:402_000]
train_test_split(seq) ==
  [train |-> Slice(seq, 0, TrainSize),
   test |-> Slice(seq, TrainSize, TrainSize + TestSize)]

\* the sample of a run in which every slot is taken whole: the slots in
\* the order of the loop
RECURSIVE whole_sample(_, _)
whole_sample(sl, upto) ==
  IF upto = 0 THEN <<>> ELSE whole_sample(sl, upto - 1) \o sl[upto]

\* loaded items whose slots are all taken whole
WholeItems == [price2 : {2 * Threshold, 2 * MaxPrice}, category : {"Electronics"}]

VARIABLES
  seed,         \* seed of the random module, 0 before random.seed
  train,
  test,
  train_pkl,    \* contents of train.pkl
  test_pkl      \* contents of test.pkl

splitVars == <<seed, train, test, train_pkl, test_pkl>>

NoFile == <<"no file">>

SplitIdle ==
  /\ seed = 0 /\ train = <<>> /\ test = <<>>
  /\ train_pkl = NoFile /\ test_pkl = NoFile

\* the sample is complete and the split cell has not run
SplitStart ==
  /\ loaded \in UNION {[1..n -> WholeItems] : n \in 0..MaxSample}
  /\ slots = make_slots(loaded)
  /\ i = MaxPrice + 1
  /\ sample = whole_sample(slots, MaxPrice)
  /\ draws = <<>> /\ balPc = "done"
  /\ SplitIdle

\* the cell: random.seed(42); random.shuffle(sample); train, test = ...
shuffle_and_split ==
  /\ balPc = "done"
  /\ seed' = Seed
  /\ \E shuffled \in random_shuffle(sample) :
       /\ sample' = shuffled
       /\ \E parts \in {train_test_split(shuffled)} :
            train' = parts.train /\ test' = parts.test
  /\ balPc' = "split"
  /\ UNCHANGED <<loaded, slots, i, draws, train_pkl, test_pkl>>

\* pickle.dump(train, file) and pickle.dump(test, file)
pickle_dump ==
  /\ balPc = "split"
  /\ train_pkl' = train /\ test_pkl' = test
  /\ balPc' = "saved"
  /\ UNCHANGED <<loaded, slots, i, sample, draws, seed, train, test>>

\* ------------------------------------------------- vector store population
\* items per collection.add call: 1000
BatchSize == 2
\* longest train list that is indexed
MaxTrain == 2 * BatchSize

\* items of train.pkl as the indexing notebook loads them
TrainItems ==
  {[text |-> "USB microphone", category |-> "Electronics", price |-> 120],
   [text |-> "Desk fan", category |-> "Appliances", price |-> 30]}

\* Item.prompt: the question, the details, the price to the nearest dollar
prompt(it) ==
  <<"How much does this cost", " to the nearest dollar", "?\n\n", it.text,
    "\n\nPrice is $", ToString(it.price), ".00">>

Question == <<"How much does this cost", " to the nearest dollar", "?\n\n">>

\* text.replace("How much does this cost to the nearest dollar?\n\n", "")
RECURSIVE replace_question(_)
replace_question(parts) ==
  IF parts = <<>> THEN <<>>
  ELSE IF Len(parts) >= 3 /\ SubSeq(parts, 1, 3) = Question
       THEN replace_question(SubSeq(parts, 4, Len(parts)))
       ELSE <<Head(parts)>> \o replace_question(Tail(parts))

\* text.split(sep)[0]: what stands before the first sep
RECURSIVE split_first(_, _)
split_first(parts, sep) ==
  IF parts = <<>> \/ Head(parts) = sep THEN <<>>
  ELSE <<Head(parts)>> \o split_first(Tail(parts), sep)

\* the parts of a text, written out as one string
RECURSIVE join(_)
join(parts) == IF parts = <<>> THEN "" ELSE Head(parts) \o join(Tail(parts))

\* most parts of the text an item prompt is made from
MaxTextParts == 2

\* pieces the cleaned text of a product is made of; some look like the
\* beginning of the question or of the price line
TextParts ==
  {"USB microphone", "Desk fan", " to the nearest dollar", " Price is $", "?"}

\* Item.make_prompt: the question, the text, the price to the nearest dollar
make_prompt(text, price) ==
  Question \o text \o <<"\n\nPrice is $", ToString(price), ".00">>

\* text.split(sep): the pieces between the occurrences of sep
RECURSIVE split(_, _)
split(parts, sep) ==
  IF Len(parts) < Len(sep) THEN <<parts>>
  ELSE IF SubSeq(parts, 1, Len(sep)) = sep
       THEN <<<<>>>> \o split(SubSeq(parts, Len(sep) + 1, Len(parts)), sep)
       ELSE LET rest == split(Tail(parts), sep)
            IN <<<<Head(parts)>> \o Head(rest)>> \o Tail(rest)

IndexError == [raised |-> "IndexError", text |-> ""]

\* description(item) of the indexing and the retrieval notebook, on item.prompt:
\* remove the question, keep what stands before "\n\nPrice is $"
description_by_replace(p) == join(split_first(replace_question(p), "\n\nPrice is $"))

\* a variant that cuts at the words "to the nearest dollar" alone
description_by_split_on_phrase(p) ==
  LET pieces == split(p, <<" to the nearest dollar">>)
  IN IF Len(pieces) < 2 THEN IndexError
     ELSE [raised |-> "none", text |-> join(split_first(pieces[2], "\n\nPrice is $"))]

\* description(item) of the ensemble notebook, on item.prompt:
\* item.prompt.split("to the nearest dollar?\n\n")[1].split("\n\nPrice is $")[0];
\* the blank in front of "to" stays with the piece on the left
description_by_split(p) ==
  LET pieces == split(p, <<" to the nearest dollar", "?\n\n">>)
  IN IF Len(pieces) < 2 THEN IndexError
     ELSE [raised |-> "none", text |-> join(split_first(pieces[2], "\n\nPrice is $"))]

\* description(item) of the indexing notebook
description(it) == description_by_replace(prompt(it))

\* model.encode: the sentence embedding of a document
encode(document) ==
  CASE document = "USB microphone" -> 1
    [] document = "Desk fan" -> 6
    [] OTHER -> 0

\* ids numbered from 0 in every batch
batch_ids_from_zero(start) == [k \in 1..BatchSize |-> "doc_" \o ToString(k - 1)]

\* [f"doc_{j}" for j in range(i, i+1000)]
batch_ids(start) == [k \in 1..BatchSize |-> "doc_" \o ToString(start + k - 1)]

\* collection.add(ids, documents, embeddings, metadatas): lists of different
\* lengths and an id given twice are refused; a record whose id the
\* collection already holds is left out
collection_add(coll, ids, docs, embeddings, metadatas) ==
  IF ~(Len(ids) = Len(docs) /\ Len(ids) = Len(embeddings) /\ Len(ids) = Len(metadatas))
  THEN [error |-> "ValueError", records |-> coll]
  ELSE IF \E j, k \in 1..Len(ids) : j # k /\ ids[j] = ids[k]
  THEN [error |-> "DuplicateIDError", records |-> coll]
  ELSE [error |-> "none",
        records |-> coll \o
          SelectSeq([k \in 1..Len(ids) |->
                       [id |-> ids[k], document |-> docs[k], vec |-> embeddings[k],
                        category |-> metadatas[k].category, price |-> metadatas[k].price]],
                    LAMBDA rec : \A k \in 1..Len(coll) : coll[k].id # rec.id)]

\* a query that ranks the farthest record first
collection_query_farthest(coll, q, n) ==
  LET hits == Nearest(coll, q, Len(coll), {})
  IN [ids |-> [k \in 1..Len(hits) |-> coll[hits[Len(hits) + 1 - k]].id]]

\* collection.query(query_embeddings=q, n_results=n): the ids in ranking order
collection_query(coll, q, n) ==
  LET hits == Nearest(coll, q, n, {})
  IN [ids |-> [k \in 1..Len(hits) |-> coll[hits[k]].id]]

\* collection.get(include=['embeddings', 'documents', 'metadatas'])
collection_get(coll) ==
  [embeddings |-> [k \in 1..Len(coll) |-> coll[k].vec],
   documents |-> [k \in 1..Len(coll) |-> coll[k].document],
   metadatas |-> [k \in 1..Len(coll) |-> [category |-> coll[k].category, price |-> coll[k].price]]]

VARIABLES
  store_train,  \* train as the indexing notebook loaded it
  offset,       \* the loop variable i of the batch loop
  added,        \* the collection.add calls made since the collection was created
  storePc,      \* "start", "created", "add_error", "populated"
  probe,        \* the last query made with the vector of a stored record
  rf_data,      \* vectors, documents and prices read for the random forest
  rf_model      \* what the random forest was fitted on

storeVars == <<store_train, offset, added, storePc, probe, rf_data, rf_model>>

NoProbe == [queried |-> "", ids |-> <<>>]
NoData == [vectors |-> <<>>, documents |-> <<>>, prices |-> <<>>]
NoModel == [fitted |-> FALSE, vectors |-> <<>>, prices |-> <<>>]

\* the collection was built by an earlier run
StoreIdle ==
  /\ store_train = <<>> /\ offset = 0 /\ added = <<>>
  /\ storePc = "populated" /\ probe = NoProbe /\ rf_data = NoData /\ rf_model = NoModel

\* train is loaded and the collection cell has not run
StoreStart ==
  /\ store_train \in UNION {[1..n -> TrainItems] : n \in 0..MaxTrain}
  /\ offset = 0 /\ added = <<>>
  /\ storePc = "start" /\ probe = NoProbe /\ rf_data = NoData /\ rf_model = NoModel

\* delete the collection if it exists, then create it
recreate_collection ==
  /\ storePc \in {"start", "populated", "add_error"}
  /\ collection' = <<>>
  /\ offset' = 0 /\ added' = <<>>
  /\ storePc' = "created"
  /\ UNCHANGED <<store_train, probe, rf_data, rf_model>>

\* one pass of  for i in range(0, len(train), 1000)
add_batch ==
  /\ storePc = "created" /\ offset < Len(store_train)
  /\ LET batch == Slice(store_train, offset, offset + BatchSize)
         docs == [k \in 1..Len(batch) |-> description(batch[k])]
         vectors == [k \in 1..Len(docs) |-> encode(docs[k])]
         metadatas == [k \in 1..Len(batch) |->
                         [category |-> batch[k].category, price |-> batch[k].price]]
         ids == batch_ids(offset)
     IN \E res \in {collection_add(collection, ids, docs, vectors, metadatas)} :
          /\ added' = Append(added, [ids |-> ids, documents |-> docs,
                                     embeddings |-> vectors, metadatas |-> metadatas,
                                     error |-> res.error])
          /\ IF res.error = "none"
             THEN /\ collection' = res.records
                  /\ offset' = offset + BatchSize
                  /\ UNCHANGED storePc
             ELSE /\ storePc' = "add_error"
                  /\ UNCHANGED <<collection, offset>>
  /\ UNCHANGED <<store_train, probe, rf_data, rf_model>>

\* the range is exhausted
populate_done ==
  /\ storePc = "created" /\ offset >= Len(store_train)
  /\ storePc' = "populated"
  /\ UNCHANGED <<collection, store_train, offset, added, probe, rf_data, rf_model>>

\* a query with the vector of a stored record
query_record ==
  /\ storePc = "populated" /\ added # <<>>
  /\ \E k \in 1..Len(collection) :
       \E res \in {collection_query(collection, collection[k].vec, n_results)} :
         probe' = [queried |-> collection[k].id, ids |-> res.ids]
  /\ UNCHANGED <<collection, store_train, offset, added, storePc, rf_data, rf_model>>

\* the cell that reads the whole collection for the random forest
read_collection ==
  /\ storePc = "populated" /\ added # <<>>
  /\ \E res \in {collection_get(collection)} :
       rf_data' = [vectors |-> res.embeddings, documents |-> res.documents,
                   prices |-> [k \in 1..Len(res.metadatas) |-> res.metadatas[k].price]]
  /\ UNCHANGED <<collection, store_train, offset, added, storePc, probe, rf_model>>

\* rf_model.fit(vectors, prices)
rf_fit ==
  /\ storePc = "populated" /\ rf_data # NoData
  /\ rf_model' = [fitted |-> TRUE, vectors |-> rf_data.vectors, prices |-> rf_data.prices]
  /\ UNCHANGED <<collection, store_train, offset, added, storePc, probe, rf_data>>

\* ------------------------------------------------------- ensemble features
\* most items of the slice test[1000:1250]
MaxRows == 2

\* values a price(text) call of an agent returns
Estimates == {0, 45, 139}

\* zip(a, b, c): as long as the shortest list
zip(a, b, c) ==
  LET n == CHOOSE m \in {Len(a), Len(b), Len(c)} : \A o \in {Len(a), Len(b), Len(c)} : m <= o
  IN [k \in 1..n |-> <<a[k], b[k], c[k]>>]

\* min(s, f, r): the first argument that no later one is less than
min(s, f, r) ==
  LET m == IF f < s THEN f ELSE s
  IN IF r < m THEN r ELSE m

\* a maximum that forgets the random forest estimate
max_of_two(s, f, r) == IF f > s THEN f ELSE s

\* max(s, f, r): the first argument that no later one is greater than
max(s, f, r) ==
  LET m == IF f > s THEN f ELSE s
  IN IF r > m THEN r ELSE m

Columns == <<"Specialist", "Frontier", "RandomForest", "Min", "Max">>

\* pd.DataFrame({...}): the columns in the order of the dict; lists of
\* different lengths are refused
DataFrame(columns, data) ==
  IF \A c, d \in DOMAIN data : Len(data[c]) = Len(data[d])
  THEN [columns |-> columns, data |-> data]
  ELSE ValueError

VARIABLES
  ens_test,         \* the slice of test the loop runs over
  specialists,
  frontiers,
  random_forests,
  ensemble_prices,  \* the list named prices in the ensemble cells
  mins,
  maxes,
  X,
  y,
  ensPc             \* "idle", "loop", "collected", "aborted", "built", "frame_error"

ensVars == <<ens_test, specialists, frontiers, random_forests, ensemble_prices,
             mins, maxes, X, y, ensPc>>

NoFrame == [columns |-> <<>>, data |-> [none |-> <<>>]]

EnsIdle ==
  /\ ens_test = <<>>
  /\ specialists = <<>> /\ frontiers = <<>> /\ random_forests = <<>>
  /\ ensemble_prices = <<>>
  /\ mins = <<>> /\ maxes = <<>> /\ X = NoFrame /\ y = <<>>
  /\ ensPc = "idle"

\* test[1000:1250]: the slice of test.pkl, of any length up to MaxRows
EnsembleSlices ==
  {[k \in 1..n |-> CHOOSE it \in TestItems : it.name = (IF k % 2 = 1 THEN "mic" ELSE "fan")] :
     n \in 0..MaxRows}

\* the four lists are empty and the loop begins
EnsStart ==
  /\ ens_test \in EnsembleSlices
  /\ specialists = <<>> /\ frontiers = <<>> /\ random_forests = <<>>
  /\ ensemble_prices = <<>>
  /\ mins = <<>> /\ maxes = <<>> /\ X = NoFrame /\ y = <<>>
  /\ ensPc = "loop"

\* the cell that empties the four lists and enters the loop
init_lists ==
  /\ ensPc = "idle"
  /\ ens_test' \in EnsembleSlices
  /\ specialists' = <<>> /\ frontiers' = <<>> /\ random_forests' = <<>>
  /\ ensemble_prices' = <<>>
  /\ ensPc' = "loop"
  /\ UNCHANGED <<mins, maxes, X, y>>

\* one pass of  for item in test[1000:1250]; a price call that raises ends
\* the cell with the appends made so far
collect_step ==
  /\ ensPc = "loop" /\ Len(ensemble_prices) < Len(ens_test)
  /\ LET it == ens_test[Len(ensemble_prices) + 1]
     IN \/ \E s, f, r \in Estimates :
             /\ specialists' = Append(specialists, s)
             /\ frontiers' = Append(frontiers, f)
             /\ random_forests' = Append(random_forests, r)
             /\ ensemble_prices' = Append(ensemble_prices, it.price)
             /\ UNCHANGED ensPc
        \/ /\ ensPc' = "aborted"
           /\ UNCHANGED <<specialists, frontiers, random_forests, ensemble_prices>>
        \/ \E s \in Estimates :
             /\ specialists' = Append(specialists, s)
             /\ ensPc' = "aborted"
             /\ UNCHANGED <<frontiers, random_forests, ensemble_prices>>
        \/ \E s, f \in Estimates :
             /\ specialists' = Append(specialists, s)
             /\ frontiers' = Append(frontiers, f)
             /\ ensPc' = "aborted"
             /\ UNCHANGED <<random_forests, ensemble_prices>>
  /\ UNCHANGED <<ens_test, mins, maxes, X, y>>

\* the slice is exhausted
collect_done ==
  /\ ensPc = "loop" /\ Len(ensemble_prices) = Len(ens_test)
  /\ ensPc' = "collected"
  /\ UNCHANGED <<ens_test, specialists, frontiers, random_forests, ensemble_prices,
                 mins, maxes, X, y>>

\* the cell that builds mins, maxes, X and y
build_features ==
  /\ ensPc \in {"collected", "aborted"}
  /\ \E rows \in {zip(specialists, frontiers, random_forests)} :
       /\ mins' = [k \in 1..Len(rows) |-> min(rows[k][1], rows[k][2], rows[k][3])]
       /\ maxes' = [k \in 1..Len(rows) |-> max(rows[k][1], rows[k][2], rows[k][3])]
  /\ \E frame \in {DataFrame(Columns,
                               [Specialist |-> specialists, Frontier |-> frontiers,
                                RandomForest |-> random_forests,
                                Min |-> mins', Max |-> maxes'])} :
       IF frame = ValueError
       THEN ensPc' = "frame_error" /\ UNCHANGED <<X, y>>
       ELSE ensPc' = "built" /\ X' = frame /\ y' = ensemble_prices
  /\ UNCHANGED <<ens_test, specialists, frontiers, random_forests, ensemble_prices>>

\* ------------------------------------------------------------ deal scanner
\* most scan cycles that are followed
MaxCycles == 2

\* listings the feeds can carry, known by their url
Listings == {"url_a", "url_b"}

\* ScrapedDeal.fetch(): one deal per entry the feeds carry now
fetch(entries) == entries

\* deal.describe() for every fetched deal, joined into the user prompt
describe_all(fetched) == fetched

\* what the model may answer: deals picked from the prompt
Selections(described) == SUBSET described

VARIABLES
  feed,         \* entries the feeds carry now
  deals,        \* the list returned by the last fetch
  scan_prompt,  \* the deals described in user_prompt
  scan_result,  \* the deals of the last selection
  cycles,       \* per finished cycle: what was fetched, passed to the model, returned
  scanPc        \* "idle", "fetched", "prompted"

scanVars == <<feed, deals, scan_prompt, scan_result, cycles, scanPc>>

ScanIdle ==
  /\ feed = {} /\ deals = {} /\ scan_prompt = {} /\ scan_result = {}
  /\ cycles = <<>> /\ scanPc = "idle"

\* the notebook is opened while the feeds carry some entries
ScanStart ==
  /\ feed \in SUBSET Listings
  /\ deals = {} /\ scan_prompt = {} /\ scan_result = {}
  /\ cycles = <<>> /\ scanPc = "idle"

\* the feeds publish or drop entries between two cycles
feed_changes ==
  /\ scanPc = "idle"
  /\ feed' \in (SUBSET Listings) \ {feed}
  /\ UNCHANGED <<deals, scan_prompt, scan_result, cycles, scanPc>>

\* deals = ScrapedDeal.fetch(show_progress=True)
fetch_deals ==
  /\ scanPc = "idle" /\ Len(cycles) < MaxCycles
  /\ deals' = fetch(feed)
  /\ scanPc' = "fetched"
  /\ UNCHANGED <<feed, scan_prompt, scan_result, cycles>>

\* user_prompt += '\n\n'.join([deal.describe() for deal in deals])
build_user_prompt ==
  /\ scanPc = "fetched"
  /\ scan_prompt' = describe_all(deals)
  /\ scanPc' = "prompted"
  /\ UNCHANGED <<feed, deals, scan_result, cycles>>

\* result = get_recommendations()
get_recommendations ==
  /\ scanPc = "prompted"
  /\ \E picked \in Selections(scan_prompt) :
       /\ scan_result' = picked
       /\ cycles' = Append(cycles, [fetched |-> deals, passed |-> scan_prompt,
                                     returned |-> picked])
  /\ scanPc' = "idle"
  /\ UNCHANGED <<feed, deals, scan_prompt>>

\* agent = ScannerAgent(); result = agent.scan(): a new agent, called
\* without arguments.  What scan() does with entries it has met before is
\* not in the sources: it passes on every entry it has not met, and any of
\* the others.
agent_scan ==
  /\ scanPc = "idle" /\ Len(cycles) < MaxCycles
  /\ \E fetched \in {fetch(feed)} :
       \E passed \in SUBSET fetched :
         /\ \A entry \in fetched \ passed :
              \E c \in 1..Len(cycles) : entry \in cycles[c].fetched
         /\ \E picked \in Selections(passed) :
              /\ scan_result' = picked
              /\ cycles' = Append(cycles, [fetched |-> fetched, passed |-> passed,
                                            returned |-> picked])
  /\ UNCHANGED <<feed, deals, scan_prompt, scanPc>>

\* ------------------------------------------------- description as a function
VARIABLES
  desc_prompt,  \* item.prompt of the item handed to description
  desc_text,    \* the text the prompt was made from
  by_replace,   \* what the replace variant returned, NoResult before the call
  by_split      \* what the split variant returned, NoResult before the call

descVars == <<desc_prompt, desc_text, by_replace, by_split>>

DescIdle ==
  desc_prompt = <<>> /\ desc_text = <<>> /\ by_replace = NoResult /\ by_split = NoResult

\* an item of train.pkl or test.pkl: its prompt was made from a text of up
\* to MaxTextParts pieces and a price
DescStart ==
  /\ desc_text \in UNION {[1..n -> TextParts] : n \in 1..MaxTextParts}
  /\ \E it \in TrainItems : desc_prompt = make_prompt(desc_text, it.price)
  /\ by_replace = NoResult /\ by_split = NoResult

\* description(item) as the indexing and the retrieval notebook define it
call_description_replace ==
  /\ by_replace = NoResult
  /\ by_replace' = [raised |-> "none", text |-> description_by_replace(desc_prompt)]
  /\ UNCHANGED <<desc_prompt, desc_text, by_split>>

\* description(item) as the ensemble notebook defines it
call_description_split ==
  /\ by_split = NoResult
  /\ by_split' = description_by_split(desc_prompt)
  /\ UNCHANGED <<desc_prompt, desc_text, by_replace>>

\* ------------------------------------------- the client of the vector store
VARIABLES
  notebook,     \* the notebook the process runs: "none", "indexing", "ensemble"
  client,       \* the PersistentClient the name client is bound to, 0 when unbound
  constructed,  \* PersistentClient objects constructed by this process
  handle,       \* the client the collection handle was obtained from
  uses,         \* the calls made on the store: which, and through which client
  nbCell        \* "idle", "start", "opened", "configured", "name_error", "read"

clientVars == <<notebook, client, constructed, handle, uses, nbCell>>

NoHandle == [client |-> 0]

ClientIdle ==
  /\ notebook = "none" /\ client = 0 /\ constructed = 0
  /\ handle = NoHandle /\ uses = {} /\ nbCell = "idle"

\* a fresh kernel about to run the indexing notebook
ClientStart ==
  /\ notebook = "indexing" /\ client = 0 /\ constructed = 0
  /\ handle = NoHandle /\ uses = {} /\ nbCell = "start"

\* chromadb.PersistentClient(path=DB): every call gives a new client object,
\* known here by its number
PersistentClient(n) == n + 1

\* client = chromadb.PersistentClient(path=DB)
open_client ==
  /\ notebook = "indexing" /\ nbCell = "start"
  /\ client' = PersistentClient(constructed) /\ constructed' = constructed + 1
  /\ nbCell' = "opened"
  /\ UNCHANGED <<notebook, handle, uses, collection, storeVars>>

\* the collection cell: delete 'products' if it exists, create it
create_products ==
  /\ notebook = "indexing" /\ nbCell = "opened" /\ storePc = "start"
  /\ recreate_collection
  /\ handle' = [client |-> client]
  /\ uses' = uses \cup {[op |-> "create_collection", client |-> client]}
  /\ UNCHANGED <<notebook, client, constructed, nbCell>>

\* one pass of the batch loop, through the handle
insert_batch ==
  /\ notebook = "indexing" /\ nbCell = "opened"
  /\ add_batch
  /\ uses' = uses \cup {[op |-> "add", client |-> handle.client]}
  /\ UNCHANGED <<notebook, client, constructed, handle, nbCell>>

insert_done ==
  /\ notebook = "indexing" /\ nbCell = "opened"
  /\ populate_done
  /\ UNCHANGED clientVars

\* the configuration cell of the visualization: a client is constructed and
\* the handle is taken from it
visualization_configuration ==
  /\ notebook = "indexing" /\ nbCell = "opened" /\ storePc = "populated"
  /\ \E c \in {PersistentClient(constructed)} :
       /\ client' = c /\ handle' = [client |-> c]
       /\ uses' = uses \cup {[op |-> "get_or_create_collection", client |-> c]}
  /\ constructed' = constructed + 1
  /\ nbCell' = "configured"
  /\ UNCHANGED <<notebook, collection, storeVars>>

\* result = collection.get(..., limit=MAXIMUM_DATAPOINTS): the cell above
\* named the limit MAX_DATAPOINTS, so the argument raises NameError before
\* the call is made
visualization_get ==
  /\ notebook = "indexing" /\ nbCell = "configured"
  /\ nbCell' = "name_error"
  /\ UNCHANGED <<notebook, client, constructed, handle, uses, collection, storeVars>>

\* the ensemble notebook is run next, in a kernel of its own
ensemble_kernel ==
  /\ notebook = "indexing" /\ nbCell = "name_error"
  /\ notebook' = "ensemble" /\ nbCell' = "start"
  /\ client' = 0 /\ constructed' = 0 /\ handle' = NoHandle /\ uses' = {}
  /\ UNCHANGED <<collection, storeVars>>

\* client = chromadb.PersistentClient(path='products_vectorstore');
\* collection = client.get_or_create_collection('products')
ensemble_open ==
  /\ notebook = "ensemble" /\ nbCell = "start"
  /\ \E c \in {PersistentClient(constructed)} :
       /\ client' = c /\ handle' = [client |-> c]
       /\ uses' = uses \cup {[op |-> "get_or_create_collection", client |-> c]}
  /\ constructed' = constructed + 1
  /\ nbCell' = "opened"
  /\ UNCHANGED <<notebook, collection, storeVars>>

\* result = collection.get(include=[...]) of the ensemble notebook
ensemble_get ==
  /\ notebook = "ensemble" /\ nbCell = "opened"
  /\ read_collection
  /\ uses' = uses \cup {[op |-> "get", client |-> handle.client]}
  /\ nbCell' = "read"
  /\ UNCHANGED <<notebook, client, constructed, handle>>

\* ------------------------------------------------- planning and the UI table
\* rows the table is declared with
row_count == 10

\* most selections of a row that are followed
MaxSelections == 2

\* the discount a deal has to exceed to be notified
DealThreshold == 50

Deal(product_description, price, url) ==
  [product_description |-> product_description, price |-> price, url |-> url]

Opportunity(deal, estimate, discount) ==
  [deal |-> deal, estimate |-> estimate, discount |-> discount]

initial_deal == Deal("Example description", 100, "https://cnn.com")

\* a placeholder whose estimate lies below its price
initial_opportunity_overpriced == Opportunity(initial_deal, 50, 50 - 100)

initial_opportunity == Opportunity(initial_deal, 200, 100)

\* get_table(opps): one row per opportunity, in list order
get_table(opps) ==
  [k \in 1..Len(opps) |->
     <<opps[k].deal.product_description, opps[k].deal.price, opps[k].estimate,
       opps[k].discount, opps[k].deal.url>>]

\* deals a scan can hand to the planner, and the values the ensemble can give
PlanDeals == {Deal("Desk fan", 30, "url_a"), Deal("USB microphone", 120, "url_b")}
PlanEstimates == {0, 100, 200}

\* what one cycle prices: each deal of the selection with its estimate and
\* discount = estimate - price
Considered ==
  {{Opportunity(d, e[d], e[d] - d.price) : d \in ds} :
     ds \in SUBSET PlanDeals, e \in [PlanDeals -> PlanEstimates]}

NoOpportunity == [none |-> TRUE]

\* PlanningAgent.plan: the opportunity with the highest discount, if its
\* discount exceeds the threshold
plan(considered) ==
  IF considered = {} THEN NoOpportunity
  ELSE LET best == CHOOSE o \in considered : \A p \in considered : p.discount <= o.discount
       IN IF best.discount > DealThreshold THEN best ELSE NoOpportunity

VARIABLES
  opportunities,  \* the value of the gr.State the handlers are given
  displayed,      \* the value of opportunities_dataframe
  alerts,         \* the opportunities messenger.alert was called with
  memory,         \* the opportunities the scan cycles have surfaced
  last_plan,      \* what the last cycle priced
  plans,          \* cycles run
  selected,       \* the row of the last selection, -1 before the first
  selects,        \* selections made
  uiError,        \* what the last handler raised: "none", "IndexError"
  uiPc            \* "idle", "launched", "loaded"

uiVars == <<opportunities, displayed, alerts, memory, last_plan, plans,
            selected, selects, uiError, uiPc>>

UiIdle ==
  /\ opportunities = <<>> /\ displayed = <<>> /\ alerts = <<>> /\ memory = <<>>
  /\ last_plan = {} /\ plans = 0 /\ selected = -1 /\ selects = 0
  /\ uiError = "none" /\ uiPc = "idle"

\* the Blocks are built with the placeholder in the state, and launched
UiStart ==
  /\ opportunities = <<initial_opportunity>> /\ displayed = <<>>
  /\ alerts = <<>> /\ memory = <<>>
  /\ last_plan = {} /\ plans = 0 /\ selected = -1 /\ selects = 0
  /\ uiError = "none" /\ uiPc = "launched"

\* ui.load(get_table, inputs=[opportunities], outputs=[opportunities_dataframe])
ui_load ==
  /\ uiPc = "launched"
  /\ displayed' = get_table(opportunities)
  /\ uiPc' = "loaded"
  /\ UNCHANGED <<opportunities, alerts, memory, last_plan, plans, selected, selects, uiError>>

\* rows of the shown table a click can land on: those the value fills and
\* those the declared row count adds below them
SelectableRows ==
  0..((IF Len(displayed) > row_count THEN Len(displayed) ELSE row_count) - 1)

\* opportunities_dataframe.select(do_select, inputs=[opportunities], outputs=[])
do_select ==
  /\ uiPc = "loaded" /\ selects < MaxSelections
  /\ \E row \in SelectableRows :
       /\ selected' = row
       /\ IF row < Len(opportunities)
          THEN /\ alerts' = Append(alerts, opportunities[row + 1])
               /\ uiError' = "none"
          ELSE /\ uiError' = "IndexError"
               /\ UNCHANGED alerts
  /\ selects' = selects + 1
  /\ UNCHANGED <<opportunities, displayed, memory, last_plan, plans, uiPc>>

\* planner.plan(): one scan cycle
plan_cycle ==
  /\ plans < MaxCycles
  /\ \E considered \in Considered :
       /\ last_plan' = considered
       /\ \E best \in {plan(considered)} :
            IF best = NoOpportunity
            THEN UNCHANGED <<alerts, memory>>
            ELSE /\ alerts' = Append(alerts, best)
                 /\ memory' = Append(memory, best)
  /\ plans' = plans + 1
  /\ UNCHANGED <<opportunities, displayed, selected, selects, uiError, uiPc>>

\* ----------------------------------------------------------- specifications
vars == <<collection, fn, pc, item, documents, prices, queries, retries,
          done, reply, sent, outcomes, result, error,
          priceInput, priceOutput,
          dataset, cell, idx, price_count, valid_prices, items, visited, curError,
          loaded, slots, i, sample, draws, balPc,
          seed, train, test, train_pkl, test_pkl,
          ens_test, specialists, frontiers, random_forests, ensemble_prices, mins, maxes, X, y, ensPc,
          store_train, offset, added, storePc, probe, rf_data, rf_model,
          feed, deals, scan_prompt, scan_result, cycles, scanPc,
          desc_prompt, desc_text, by_replace, by_split,
          notebook, client, constructed, handle, uses, nbCell,
          opportunities, displayed, alerts, memory, last_plan, plans, selected, selects, uiError, uiPc>>

\* what the cells of one notebook leave alone: the state of the others
RagFrame == UNCHANGED <<priceVars, curVars, balVars, splitVars, ensVars, storeVars, scanVars, descVars, clientVars, uiVars>>
PriceFrame == UNCHANGED <<ragVars, curVars, balVars, splitVars, ensVars, storeVars, scanVars, descVars, clientVars, uiVars>>
CurFrame == UNCHANGED <<ragVars, priceVars, balVars, splitVars, ensVars, storeVars, scanVars, descVars, clientVars, uiVars>>
BalFrame == UNCHANGED <<ragVars, priceVars, curVars, splitVars, ensVars, storeVars, scanVars, descVars, clientVars, uiVars>>
SplitFrame == UNCHANGED <<ragVars, priceVars, curVars, ensVars, storeVars, scanVars, descVars, clientVars, uiVars>>
EnsFrame == UNCHANGED <<ragVars, priceVars, curVars, balVars, splitVars, storeVars, scanVars, descVars, clientVars, uiVars>>
StoreFrame == UNCHANGED <<estimatorVars, priceVars, curVars, balVars, splitVars, ensVars, scanVars, descVars, clientVars, uiVars>>
ScanFrame == UNCHANGED <<ragVars, priceVars, curVars, balVars, splitVars, ensVars, storeVars, descVars, clientVars, uiVars>>
DescFrame == UNCHANGED <<ragVars, priceVars, curVars, balVars, splitVars, ensVars, storeVars, scanVars, clientVars, uiVars>>
ClientFrame == UNCHANGED <<estimatorVars, priceVars, curVars, balVars, splitVars, ensVars, scanVars, descVars, uiVars>>
UiFrame == UNCHANGED <<ragVars, priceVars, curVars, balVars, splitVars, ensVars, storeVars, scanVars, descVars, clientVars>>

\* the estimators of 04_RAG Test run over the test items
Init == RagIdle /\ UiIdle /\ ClientIdle /\ DescIdle /\ ScanIdle /\ StoreIdle /\ EnsIdle /\ PriceIdle /\ CurIdle /\ BalIdle /\ SplitIdle

Next ==
  \/ \E it \in TestItems : gpt_4o_mini_rag(it) /\ RagFrame
  \/ \E it \in TestItems : deepseek_api_rag(it) /\ RagFrame
  \/ deepseek_attempt /\ RagFrame
  \/ deepseek_return /\ RagFrame
  \/ NextItem /\ RagFrame

Spec == Init /\ [][Next]_vars

\* a started call keeps running: the loop body and the return are not
\* suspended by anything in the notebook
LiveSpec ==
  /\ Spec
  /\ WF_vars(deepseek_attempt /\ RagFrame)
  /\ WF_vars(deepseek_return /\ RagFrame)

\* get_price applied to every short string
InitPrice ==
  /\ RagIdle /\ UiIdle /\ ClientIdle /\ DescIdle /\ ScanIdle /\ StoreIdle /\ EnsIdle /\ CurIdle /\ BalIdle /\ SplitIdle
  /\ priceInput \in PriceInputs /\ priceOutput = NoResult

NextPrice == call_get_price /\ PriceFrame

SpecPrice == InitPrice /\ [][NextPrice]_vars

\* the three price cells of the curation notebook over a raw dataset
InitCuration == RagIdle /\ UiIdle /\ ClientIdle /\ DescIdle /\ ScanIdle /\ StoreIdle /\ EnsIdle /\ PriceIdle /\ BalIdle /\ SplitIdle /\ CurStart

NextCuration ==
  \/ count_prices_step /\ CurFrame
  \/ valid_prices_step /\ CurFrame
  \/ items_step /\ CurFrame
  \/ next_cell /\ CurFrame

SpecCuration == InitCuration /\ [][NextCuration]_vars

\* slots and the balanced sample over the loaded items
InitBalance == RagIdle /\ UiIdle /\ ClientIdle /\ DescIdle /\ ScanIdle /\ StoreIdle /\ EnsIdle /\ PriceIdle /\ CurIdle /\ SplitIdle /\ BalStart

NextBalance ==
  \/ build_slots /\ BalFrame
  \/ sample_step /\ BalFrame
  \/ sample_done /\ BalFrame

SpecBalance == InitBalance /\ [][NextBalance]_vars

\* the split cell and the pickle cell over a complete sample
InitSplit == RagIdle /\ UiIdle /\ ClientIdle /\ DescIdle /\ ScanIdle /\ StoreIdle /\ EnsIdle /\ PriceIdle /\ CurIdle /\ SplitStart

NextSplit ==
  \/ shuffle_and_split /\ SplitFrame
  \/ pickle_dump /\ SplitFrame

SpecSplit == InitSplit /\ [][NextSplit]_vars

\* the ensemble data-collection loop and the feature cell
InitEnsemble == RagIdle /\ UiIdle /\ ClientIdle /\ DescIdle /\ ScanIdle /\ StoreIdle /\ PriceIdle /\ CurIdle /\ BalIdle /\ SplitIdle /\ EnsStart

NextEnsemble ==
  \/ collect_step /\ EnsFrame
  \/ collect_done /\ EnsFrame
  \/ build_features /\ EnsFrame

SpecEnsemble == InitEnsemble /\ [][NextEnsemble]_vars

\* the indexing notebook: the collection cell, the batch loop, and reads of
\* the finished collection
InitStore ==
  /\ RagIdle /\ UiIdle /\ ClientIdle /\ DescIdle /\ ScanIdle /\ EnsIdle /\ PriceIdle /\ CurIdle /\ BalIdle /\ SplitIdle
  /\ StoreStart

NextStore ==
  \/ recreate_collection /\ StoreFrame
  \/ add_batch /\ StoreFrame
  \/ populate_done /\ StoreFrame
  \/ query_record /\ StoreFrame
  \/ read_collection /\ StoreFrame

SpecStore == InitStore /\ [][NextStore]_vars

\* the notebooks around one 'products' collection: it is rebuilt, then read
\* by the retrieval cell and the estimators, by the random forest cells and
\* by the ensemble cells, one notebook at a time
EstimatorsIdle == fn = "none" /\ pc = "idle"
ForestIdle == probe = NoProbe /\ rf_data = NoData /\ rf_model = NoModel

InitLifecycle == InitStore /\ Len(store_train) <= BatchSize

NextLifecycle ==
  \/ /\ EstimatorsIdle /\ ForestIdle /\ ensPc = "idle"
     /\ \/ recreate_collection /\ StoreFrame
        \/ add_batch /\ StoreFrame
        \/ populate_done /\ StoreFrame
  \/ /\ storePc = "populated" /\ ForestIdle /\ ensPc = "idle"
     /\ \/ \E it \in TestItems : find_similars_cell(it) /\ RagFrame
        \/ Next
  \/ /\ storePc = "populated" /\ EstimatorsIdle /\ ensPc = "idle"
     /\ \/ read_collection /\ StoreFrame
        \/ rf_fit /\ StoreFrame
  \/ /\ storePc = "populated" /\ EstimatorsIdle /\ ForestIdle
     /\ \/ init_lists /\ EnsFrame
        \/ NextEnsemble

SpecLifecycle == InitLifecycle /\ [][NextLifecycle]_vars

\* scan cycles of the scanner notebook
InitScanner ==
  /\ RagIdle /\ UiIdle /\ ClientIdle /\ DescIdle /\ StoreIdle /\ EnsIdle /\ PriceIdle /\ CurIdle /\ BalIdle /\ SplitIdle
  /\ ScanStart

NextScanner ==
  \/ feed_changes /\ ScanFrame
  \/ fetch_deals /\ ScanFrame
  \/ build_user_prompt /\ ScanFrame
  \/ get_recommendations /\ ScanFrame
  \/ agent_scan /\ ScanFrame

SpecScanner == InitScanner /\ [][NextScanner]_vars

\* description applied to the prompt of every short item
InitDescription ==
  /\ RagIdle /\ UiIdle /\ ClientIdle /\ ScanIdle /\ StoreIdle /\ EnsIdle /\ PriceIdle /\ CurIdle /\ BalIdle /\ SplitIdle
  /\ DescStart

NextDescription ==
  \/ call_description_replace /\ DescFrame
  \/ call_description_split /\ DescFrame

SpecDescription == InitDescription /\ [][NextDescription]_vars

\* the indexing notebook and then the ensemble notebook, each in a process
\* of its own, with the clients they construct
InitClient ==
  /\ RagIdle /\ UiIdle /\ DescIdle /\ ScanIdle /\ EnsIdle /\ PriceIdle /\ CurIdle /\ BalIdle /\ SplitIdle
  /\ StoreStart /\ ClientStart

NextClient ==
  \/ open_client /\ ClientFrame
  \/ create_products /\ ClientFrame
  \/ insert_batch /\ ClientFrame
  \/ insert_done /\ ClientFrame
  \/ visualization_configuration /\ ClientFrame
  \/ visualization_get /\ ClientFrame
  \/ ensemble_kernel /\ ClientFrame
  \/ ensemble_open /\ ClientFrame
  \/ ensemble_get /\ ClientFrame

SpecClient == InitClient /\ [][NextClient]_vars

\* the DealSeeker page and the planner's scan cycles
InitUi ==
  /\ RagIdle /\ ClientIdle /\ DescIdle /\ ScanIdle /\ StoreIdle /\ EnsIdle /\ PriceIdle /\ CurIdle /\ BalIdle /\ SplitIdle
  /\ UiStart

NextUi ==
  \/ ui_load /\ UiFrame
  \/ do_select /\ UiFrame
  \/ plan_cycle /\ UiFrame

SpecUi == InitUi /\ [][NextUi]_vars

\* ------------------------------------------------------------------- claims
Estimators == {"gpt_4o_mini_rag", "deepseek_api_rag"}
Left == pc \in {"returned", "raised"}
Failures == Cardinality({k \in 1..Len(outcomes) : outcomes[k] = "fail"})

\* C1: deepseek_api_rag terminates and issues at most 8 upstream calls: the
\* counter starts at 8 and falls by one per failed call, no call is made once
\* the counter is 0 or a call has succeeded, and a started call always
\* reaches its return.
C1_BoundedRetries ==
  /\ [](fn = "deepseek_api_rag" =>
          /\ retries \in 0..8
          /\ retries = 8 - Failures
          /\ Len(sent) <= 8
          /\ Len(sent) = Failures + (IF done THEN 1 ELSE 0)
          /\ \A k \in 1..Len(outcomes) : outcomes[k] = "ok" => k = Len(outcomes))
  /\ ((fn = "deepseek_api_rag" /\ pc = "loop") ~> Left)

\* C1 witness: a call that used all 8 attempts and was left
C1_Witness == fn = "deepseek_api_rag" /\ Left /\ Len(sent) = 8

\* C2: when all 8 attempts fail, the caller observes the upstream failure
\* and no price.
C2_UpstreamErrorPropagates ==
  (fn = "deepseek_api_rag" /\ Left /\ Len(outcomes) = 8
     /\ \A k \in 1..Len(outcomes) : outcomes[k] = "fail")
  => (pc = "raised" /\ result = NoResult /\ error = "APIError")

\* C3: the vector store is queried once per item and every attempt sends
\* the request of the first attempt, built from the documents and prices
\* retrieved before the loop.
C3_SameRequest ==
  fn = "deepseek_api_rag" =>
    /\ queries = 1
    /\ \A n \in 1..Len(sent) :
         /\ sent[n] = sent[1]
         /\ sent[n].messages = messages_for(item, documents, prices)

\* C3 witness: a third attempt has been sent after two failures
C3_Witness == fn = "deepseek_api_rag" /\ Len(sent) >= 3 /\ Failures >= 2

\* C4: gpt_4o_mini_rag issues exactly one upstream call per item, and a
\* failed call surfaces as the upstream error with no price returned.
C4_GptSingleCall ==
  fn = "gpt_4o_mini_rag" =>
    /\ Len(sent) = 1 /\ Len(outcomes) = 1 /\ queries = 1
    /\ (outcomes[1] = "fail" =>
          pc = "raised" /\ error = "APIError" /\ result = NoResult)

\* C4 witness: the single call failed and the caller saw it
C4_Witness == fn = "gpt_4o_mini_rag" /\ outcomes = <<"fail">> /\ pc = "raised"

\* C5: a reply without a digit makes the estimator return the price 0; it
\* does not raise.
C5_NoDigitGivesZero ==
  (fn \in Estimators /\ Left /\ reply.bound /\ ~HasDigit(reply.text))
  => (pc = "returned" /\ result = Number(0) /\ error = "none")

\* C5 witness: an estimator returned for a non-empty reply without a digit
C5_Witness ==
  /\ fn \in Estimators /\ pc = "returned" /\ reply.bound
  /\ Len(reply.text) >= 2 /\ ~HasDigit(reply.text)

\* The first numeric token of a stripped reply, found from its first digit:
\* a "." right before the digit starts the token (with a sign before it);
\* otherwise the digit run is extended by "." and more digits when they
\* follow (with a sign before the run), and is the bare run when not.
FirstDigit(t) == CHOOSE d \in 1..Len(t) : IsDigit(t[d]) /\ \A k \in 1..(d - 1) : ~IsDigit(t[k])
RunEnd(t, p) ==
  LET others == {k \in p..Len(t) : ~IsDigit(t[k])}
  IN IF others = {} THEN Len(t) + 1 ELSE CHOOSE x \in others : \A o \in others : x <= o
FirstToken(t) ==
  LET d == FirstDigit(t)
      r == RunEnd(t, d)
  IN IF d > 1 /\ t[d - 1] = "."
     THEN [start |-> IF d > 2 /\ t[d - 2] \in Signs THEN d - 2 ELSE d - 1, end |-> r]
     ELSE IF r + 1 <= Len(t) /\ t[r] = "." /\ IsDigit(t[r + 1])
          THEN [start |-> IF d > 1 /\ t[d - 1] \in Signs THEN d - 1 ELSE d,
                end |-> RunEnd(t, r + 1)]
          ELSE [start |-> d, end |-> r]
Stripped(s) == SelectSeq(s, LAMBDA c : c # "$" /\ c # ",")

\* C6: for a reply with a number, get_price returns the value of the
\* leftmost numeric token of the reply with "$" and "," removed, and what
\* follows that token does not change the result.
C6_FirstNumber ==
  (priceOutput # NoResult /\ HasDigit(priceInput)) =>
    LET t == Stripped(priceInput)
        tok == FirstToken(t)
    IN /\ priceOutput = float(SubSeq(t, tok.start, tok.end - 1))
       /\ IsNumber(priceOutput)
       /\ priceOutput = get_price(SubSeq(t, 1, tok.end - 1))

\* C6 witness: get_price was applied to a reply with "$" or "," in which a
\* second number follows the first token
C6_Witness ==
  /\ priceOutput # NoResult /\ HasDigit(priceInput)
  /\ \E k \in 1..Len(priceInput) : priceInput[k] \in {"$", ","}
  /\ LET t == Stripped(priceInput)
     IN \E k \in FirstToken(t).end..Len(t) : IsDigit(t[k])

\* the price of a record is a number between 1 and 999
ValidPrice(dp) ==
  LET p == float(dp.price)
  IN IsNumber(p) /\ p.den <= p.num /\ p.num <= 999 * p.den

\* C7: every curated item comes from a record whose price parses to a number
\* in [1, 999] and whose include flag is true; records with a price outside
\* the range or not numeric leave no item, and no such price is gathered.
C7_CuratedInRange ==
  /\ \A n \in 1..Len(items) :
       /\ items[n].source \in 1..Len(dataset)
       /\ ValidPrice(dataset[items[n].source])
       /\ items[n].include /\ dataset[items[n].source].enough
  /\ \A n \in 1..Len(valid_prices) :
       valid_prices[n].den <= valid_prices[n].num /\ valid_prices[n].num <= 999 * valid_prices[n].den

\* C7 witness: the curation is over, one record was kept and one was
\* dropped for its price
C7_Witness ==
  /\ cell = "done" /\ Len(items) >= 1
  /\ \E k \in 1..Len(dataset) : ~ValidPrice(dataset[k]) /\ dataset[k].enough

\* C8: a record whose price does not parse is skipped without an exception:
\* no cell is ended by an error, the record leaves no item, and every record
\* of the dataset, the later ones included, is visited by each loop.
C8_SilentSkip ==
  /\ cell # "raised" /\ curError = "none"
  /\ \A n \in 1..Len(items) : float(dataset[items[n].source].price) # ValueError
  /\ (cell = "done" =>
        \A c \in {"prices", "valid_prices", "items"} : \A k \in 1..Len(dataset) :
          \E n \in 1..Len(visited) : visited[n] = <<c, k>>)

\* C8 witness: the record after one with an unparsable price became an item
C8_Witness ==
  /\ cell = "done"
  /\ \E k \in 1..(Len(dataset) - 1) :
       /\ float(dataset[k].price) = ValueError
       /\ \E n \in 1..Len(items) : items[n].source = k + 1

\* slots the sampling loop has been through
Processed == IF balPc = "done" THEN 1..MaxPrice
             ELSE IF balPc = "sampling" THEN 1..(i - 1) ELSE {}
\* the items of price slot s in the sample
Contribution(s) == SelectSeq(sample, LAMBDA it : round(it.price2) = s)
Occurrences(it) == Cardinality({n \in 1..Len(sample) : sample[n] = it})

\* C9: a slot below the threshold contributes at most the cap; one holding
\* more than the cap contributes exactly the cap, all items of that slot and
\* pairwise different.
C9_CapBelowThreshold ==
  \A s \in Processed : s < Threshold =>
    LET got == Contribution(s)
    IN /\ Len(got) <= Cap
       /\ \A n \in 1..Len(got) : \E k \in 1..Len(slots[s]) : slots[s][k] = got[n]
       /\ Len(slots[s]) > Cap =>
            /\ Len(got) = Cap
            /\ \A m, n \in 1..Len(got) : m # n => got[m] # got[n]

\* C9 witness: the loop is over and a slot below the threshold held more
\* than the cap
C9_Witness ==
  balPc = "done" /\ \E s \in 1..(Threshold - 1) : Len(slots[s]) > Cap

\* C10: a slot at or above the threshold, or holding at most the cap, is
\* kept whole: each of its items is in the sample exactly once.
C10_KeptWhole ==
  \A s \in Processed : (s >= Threshold \/ Len(slots[s]) <= Cap) =>
    \A k \in 1..Len(slots[s]) : Occurrences(slots[s][k]) = 1

\* C10 witness: the boundary slot held more than the cap and the loop is over
C10_Witness == balPc = "done" /\ Len(slots[Threshold]) > Cap

\* exact sum of quotients that share one denominator
RECURSIVE SumNum(_)
SumNum(q) == IF q = <<>> THEN 0 ELSE q[1].num + SumNum(Tail(q))

\* C11: for every down-sampling draw the weights passed to the draw are one
\* per item of the slot, sum to 1, give every 'Automotive' item one common
\* weight w and every item of another category the weight 5*w (weights taken
\* as exact quotients).
C11_WeightsPerSlot ==
  \A d \in 1..Len(draws) :
    LET slot == slots[draws[d].slot]
        q == draws[d].p
    IN /\ Len(q) = Len(slot)
       /\ \A k \in 1..Len(q) : q[k].den = q[1].den /\ q[k].den > 0
       /\ SumNum(q) = q[1].den
       /\ \A j, k \in 1..Len(slot) :
            /\ (slot[j].category = "Automotive" /\ slot[k].category = "Automotive")
                 => q[j].num * q[k].den = q[k].num * q[j].den
            /\ (slot[j].category = "Automotive" /\ slot[k].category # "Automotive")
                 => q[k].num * q[j].den = 5 * q[j].num * q[k].den
            /\ (slot[j].category # "Automotive" /\ slot[k].category # "Automotive")
                 => q[j].num * q[k].den = q[k].num * q[j].den

\* C11 witness: a draw was made from a slot holding both an 'Automotive'
\* item and an item of another category
C11_Witness ==
  \E d \in 1..Len(draws) :
    /\ \E k \in 1..Len(slots[draws[d].slot]) : slots[draws[d].slot][k].category = "Automotive"
    /\ \E k \in 1..Len(slots[draws[d].slot]) : slots[draws[d].slot][k].category # "Automotive"

\* items of a list, as a set
Range(seq) == {seq[k] : k \in 1..Len(seq)}

\* tr and te are the first TrainSize items of sa and the TestSize after them
Least(a, b) == IF a < b THEN a ELSE b
FirstAndNext(tr, te, sa) ==
  /\ Len(tr) = Least(TrainSize, Len(sa))
  /\ Len(te) = Least(TestSize, Len(sa) - Len(tr))
  /\ \A k \in 1..Len(tr) : tr[k] = sa[k]
  /\ \A k \in 1..Len(te) : te[k] = sa[TrainSize + k]

\* C12: the split cell seeds the generator with 42 and rearranges the sample
\* before it slices it: train is the first TrainSize items of the shuffled
\* sample and test the next TestSize; no item is in both, every item of train
\* and test is an item of the sample, and the two pickle files hold these
\* two lists.
C12_ShuffleThenSplit ==
  /\ [][(balPc = "done" /\ balPc' = "split") =>
          /\ seed' = 42
          /\ Len(sample') = Len(sample) /\ Range(sample') = Range(sample)
          /\ FirstAndNext(train', test', sample')]_vars
  /\ [](balPc \in {"split", "saved"} =>
          /\ FirstAndNext(train, test, sample)
          /\ Range(train) \cap Range(test) = {}
          /\ Range(train) \cup Range(test) \subseteq Range(sample))
  /\ [](balPc = "saved" => train_pkl = train /\ test_pkl = test)

\* C12 witness: both files are written, train and test are full, an item of
\* the sample is in neither, and the shuffle moved the first loaded item
C12_Witness ==
  /\ balPc = "saved" /\ Len(train_pkl) = TrainSize /\ Len(test_pkl) = TestSize
  /\ Len(sample) > TrainSize + TestSize
  /\ sample[1].id # 1

\* C13: once X is built its columns are Specialist, Frontier, RandomForest,
\* Min, Max in this order, and in every row Min is the smallest and Max the
\* largest of the row's three estimates: Min <= each estimate <= Max and
\* both are among the three.
C13_MinMaxRows ==
  ensPc = "built" =>
    /\ X.columns = <<"Specialist", "Frontier", "RandomForest", "Min", "Max">>
    /\ DOMAIN X.data = {"Specialist", "Frontier", "RandomForest", "Min", "Max"}
    /\ \A c \in DOMAIN X.data : Len(X.data[c]) = Len(specialists)
    /\ \A k \in 1..Len(specialists) :
         LET three == {X.data["Specialist"][k], X.data["Frontier"][k], X.data["RandomForest"][k]}
         IN /\ X.data["Min"][k] \in three /\ X.data["Max"][k] \in three
            /\ \A e \in three : X.data["Min"][k] <= e /\ e <= X.data["Max"][k]

\* C13 witness: X has a row whose estimates fall from the specialist to the
\* random forest and a row where they rise
C13_Witness ==
  /\ ensPc = "built"
  /\ \E k \in 1..Len(X.data["Min"]) :
       X.data["Specialist"][k] > X.data["Frontier"][k]
         /\ X.data["Frontier"][k] > X.data["RandomForest"][k]
  /\ \E k \in 1..Len(X.data["Min"]) :
       X.data["Specialist"][k] < X.data["Frontier"][k]
         /\ X.data["Frontier"][k] < X.data["RandomForest"][k]

\* the id of the item at offset j, written out
ExpectedIds == <<"doc_0", "doc_1", "doc_2", "doc_3", "doc_4", "doc_5", "doc_6", "doc_7", "doc_8", "doc_9">>
Rebuilt == storePc \in {"created", "add_error", "populated"}

Stored(id) == collection[CHOOSE n \in 1..Len(collection) : collection[n].id = id]

\* C15 as stated: after the population loop a query with the vector of a
\* stored record returns that record's id as the top-ranked result.
C15_RoundTrip ==
  (storePc = "populated" /\ probe # NoProbe)
    => (probe.ids # <<>> /\ probe.ids[1] = probe.queried)

\* C15: after the population loop a query with the vector of a stored
\* record returns as the top-ranked result a record with that same vector,
\* and it is the queried record itself when no other stored record has the
\* same vector.
C15_RoundTripUniqueVector ==
  (storePc = "populated" /\ probe # NoProbe) =>
    /\ probe.ids # <<>>
    /\ Stored(probe.ids[1]).vec = Stored(probe.queried).vec
    /\ (\A n \in 1..Len(collection) :
          collection[n].vec = Stored(probe.queried).vec => collection[n].id = probe.queried)
         => probe.ids[1] = probe.queried

\* C15 witness: the queried record is not the first of the collection, no
\* other record has its vector, and it came back on top
C15_Witness ==
  /\ storePc = "populated" /\ probe # NoProbe /\ probe.queried # collection[1].id
  /\ probe.ids[1] = probe.queried
  /\ \A n \in 1..Len(collection) :
       collection[n].vec = Stored(probe.queried).vec => collection[n].id = probe.queried

\* C16: a step changes the contents of the collection only if it is the
\* delete-and-recreate step, which empties it, or a pass of the population
\* loop that follows it; every step of the retrieval cell, of the two
\* estimators, of the random forest cells and of the ensemble cells leaves
\* the collection as it was.
C16_ReadOnlyAfterBuild ==
  /\ [][collection' # collection =>
          \/ storePc \in {"start", "populated", "add_error"}
               /\ storePc' = "created" /\ collection' = <<>>
          \/ storePc = "created" /\ storePc' = "created"
               /\ Len(added') = Len(added) + 1
               /\ Len(collection') > Len(collection)
               /\ SubSeq(collection', 1, Len(collection)) = collection]_vars
  /\ [][(fn' # fn \/ pc' # pc \/ sent' # sent \/ documents' # documents
          \/ rf_data' # rf_data \/ rf_model' # rf_model
          \/ ensPc' # ensPc \/ specialists' # specialists \/ X' # X)
         => collection' = collection]_vars

\* C16 witness: on a collection filled by the population loop the retrieval
\* cell has run and an estimator has since returned a price
C16_Witness ==
  /\ storePc = "populated" /\ added # <<>> /\ collection # <<>>
  /\ fn = "deepseek_api_rag" /\ pc = "returned" /\ Len(sent) >= 2
  /\ Len(documents) = Len(collection)

\* every message list handed to an upstream call
Requests == {sent[n].messages : n \in 1..Len(sent)}

\* C17: every request carries exactly three messages, system, user,
\* assistant in this order: the fixed price-only instruction, the context
\* block followed by the question about the item, and the priming text
\* "Price is $".
C17_ThreeMessages ==
  \A messages \in Requests :
    /\ Len(messages) = 3
    /\ messages[1] = [role |-> "system",
                      content |-> "You estimate prices of items. Reply only with the price, no explanation"]
    /\ messages[2].role = "user"
    /\ Len(messages[2].content) = 3
    /\ messages[2].content[1][1] =
         "To provide some context, here are some other items that might be similar to the item you need to estimate.\n\n"
    /\ Len(messages[2].content[1]) = 1 + Len(documents)
    /\ messages[2].content[2] = "And now the question for you:\n\n"
    /\ messages[2].content[3] = <<"How much does this cost", "?\n\n", item.text>>
    /\ messages[3] = [role |-> "assistant", content |-> "Price is $"]

\* C17 witness: both kinds of request were seen with five context items
C17_Witness ==
  /\ fn = "deepseek_api_rag" /\ Len(sent) >= 2 /\ Len(documents) = 5
  /\ sent[1].messages[2].content[3][3] = "Ceiling fan with remote"

\* C18: in every request the question placed after "And now the question
\* for you:" is built from the item's test prompt and holds neither the
\* "Price is $" suffix nor the price of the queried item.
C18_QuestionHidesPrice ==
  \A messages \in Requests :
    LET user_prompt == messages[2].content
        question == user_prompt[Len(user_prompt)]
    IN /\ user_prompt[Len(user_prompt) - 1] = "And now the question for you:\n\n"
       /\ question[Len(question)] = item.text
       /\ \A k \in 1..Len(question) :
            /\ question[k] # "\n\nPrice is $"
            /\ question[k] # ToString(item.price)

\* C18 witness: a request about the item priced 139 was sent
C18_Witness ==
  /\ fn = "gpt_4o_mini_rag" /\ Len(sent) = 1 /\ item.price = 139
  /\ Len(sent[1].messages[2].content[3]) = 3

\* the record of the collection that the k-th retrieved document and price
\* come from, 0 when there is none
Hit(k) ==
  LET from == {n \in 1..Len(collection) :
                 collection[n].document = documents[k] /\ collection[n].price = prices[k]}
  IN IF from = {} THEN 0 ELSE CHOOSE n \in from : \A m \in from : n <= m

\* C19: find_similars returns the five nearest documents (all of them when
\* the collection holds fewer), nearest first, and a price list of the same
\* length whose i-th entry is the price stored with the i-th document; the
\* context has the heading and then one "Potentially related product" block
\* per retrieved item, in that order, the i-th block holding the i-th
\* document and the i-th price with two decimals.
C19_ContextPairsPrices ==
  fn \in Estimators =>
    /\ Len(documents) = (IF Len(collection) < 5 THEN Len(collection) ELSE 5)
    /\ Len(prices) = Len(documents)
    /\ \A k \in 1..Len(documents) : Hit(k) # 0
    /\ \A j, k \in 1..Len(documents) : j # k => Hit(j) # Hit(k)
    /\ \A j, k \in 1..Len(documents) : j < k =>
         Distance(collection[Hit(j)].vec, item.vec) <= Distance(collection[Hit(k)].vec, item.vec)
    /\ \A n \in 1..Len(collection) : (\A k \in 1..Len(documents) : Hit(k) # n) =>
         \A k \in 1..Len(documents) :
           Distance(collection[Hit(k)].vec, item.vec) <= Distance(collection[n].vec, item.vec)
    /\ \A messages \in Requests :
         LET context == messages[2].content[1]
         IN /\ Len(context) = 1 + Len(documents)
            /\ \A k \in 1..Len(documents) :
                 context[k + 1] = <<"Potentially related product:\n", documents[k],
                                    "\nPrice is $", <<prices[k], ".", 0, 0>>, "\n\n">>

\* C19 witness: a request was sent whose five context items have five
\* different prices, with one record of the collection left out
C19_Witness ==
  /\ fn \in Estimators /\ sent # <<>> /\ Len(documents) = 5 /\ Len(collection) > 5
  /\ \A j, k \in 1..Len(prices) : j # k => prices[j] # prices[k]

\* C20: over the scan cycles, an entry that was fetched in an earlier cycle
\* is not among the deals passed to the model in a later cycle and is not
\* among the deals a later cycle returns.
C20_NoRepeatedListing ==
  \A c, d \in 1..Len(cycles) : c < d =>
    /\ cycles[c].fetched \cap cycles[d].passed = {}
    /\ cycles[c].fetched \cap cycles[d].returned = {}

\* C25: deepseek_api_rag stops at the first success: the step that records a
\* successful call sets done and binds reply, from then on no further request
\* is sent and reply is not rebound for that item, and when the function is
\* left after a success the caller gets get_price of that reply (its
\* ValueError when get_price raises).
C25_FirstSuccessEnds ==
  /\ [][(fn = "deepseek_api_rag" /\ fn' = "deepseek_api_rag") =>
          /\ (Len(outcomes') > Len(outcomes) /\ outcomes'[Len(outcomes')] = "ok")
               => (done' /\ reply'.bound)
          /\ done => (done' /\ sent' = sent /\ outcomes' = outcomes /\ reply' = reply)]_vars
  /\ [](fn = "deepseek_api_rag" /\ done /\ Left =>
          /\ reply.bound
          /\ outcomes[Len(outcomes)] = "ok"
          /\ IF get_price(reply.text) = ValueError
             THEN pc = "raised" /\ error = "ValueError"
             ELSE pc = "returned" /\ result = get_price(reply.text))

\* C25 witness: a call that succeeded at its third attempt and returned the
\* price read from that reply
C25_Witness ==
  /\ fn = "deepseek_api_rag" /\ pc = "returned" /\ done
  /\ Len(sent) = 3 /\ outcomes = <<"fail", "fail", "ok">>
  /\ reply.bound /\ result = get_price(reply.text) /\ result # Number(0)

\* C30: get_price never returns a negative price: whatever the string, a
\* returned number is at least 0, also when a '-' stands in front of the
\* first number.
C30_NeverNegative ==
  (priceOutput # NoResult /\ IsNumber(priceOutput)) => priceOutput.num >= 0

\* C26: whatever the length of train, every collection.add call gets ids,
\* documents, embeddings and metadatas of one length, no call is refused, and
\* when the loop has ended the collection holds one record per item of
\* train, item j under doc_j.
C26_EveryItemInserted ==
  Rebuilt =>
    /\ \A b \in 1..Len(added) :
         /\ Len(added[b].ids) = Len(added[b].documents)
         /\ Len(added[b].ids) = Len(added[b].embeddings)
         /\ Len(added[b].ids) = Len(added[b].metadatas)
    /\ storePc # "add_error"
    /\ storePc = "populated" =>
         /\ Len(collection) = Len(store_train)
         /\ \A j \in 1..Len(store_train) :
              Cardinality({n \in 1..Len(collection) :
                             /\ collection[n].id = ExpectedIds[j]
                             /\ collection[n].document = store_train[j].text}) = 1

\* C27: in every state the data-collection loop can be left in, also after a
\* price() call raised part-way through an item, specialists, frontiers,
\* random_forests and prices have one length, and entry k of each belongs to
\* item k of the slice.
C27_ListsInStep ==
  ensPc \in {"collected", "aborted", "built", "frame_error"} =>
    /\ Len(specialists) = Len(ensemble_prices)
    /\ Len(frontiers) = Len(ensemble_prices)
    /\ Len(random_forests) = Len(ensemble_prices)
    /\ \A k \in 1..Len(ensemble_prices) :
         k <= Len(ens_test) /\ ensemble_prices[k] = ens_test[k].price

C24_OpenedOnce ==
  /\ constructed <= 1
  /\ \A u \in uses : u.client = 1
  /\ handle.client \in {0, 1}

\* C21: the table is refreshed per scan cycle: after every scan cycle that
\* changes the list of surfaced opportunities, the displayed rows are
\* get_table of that list, one row per opportunity in list order.
C21_TableFollowsCycle ==
  [][memory' # memory => displayed' = get_table(memory')]_vars

\* C22: each selection of a row r sends exactly one alert, for
\* opportunities[r], and leaves the opportunity list as it was.
C22_SelectionAlerts ==
  [][selects' = selects + 1 =>
       /\ selected' < Len(opportunities)
       /\ alerts' = Append(alerts, opportunities[selected' + 1])
       /\ opportunities' = opportunities]_vars

C29_EveryRowMapped ==
  selected # -1 => (selected < Len(opportunities) /\ uiError = "none")

====
